---- MODULE Spec2Model ----
(***************************************************************************)
(* rustdss: the command dispatcher core_logic (src/core/base_logic.rs) and *)
(* the Core actor that main (everything/src/main.rs) starts and hands to   *)
(* the connection layer.                                                   *)
(*                                                                         *)
(* Spec       the dispatcher driven directly, one command after another,   *)
(*            the way the unit tests of base_logic.rs drive it.            *)
(* SpecActor  the Core actor and its connection handlers, each handler     *)
(*            working on its own key with Set and Get.                     *)
(* SpecCore   the Core actor and its connection handlers, all on one key   *)
(*            with every kind of command; the run's history is kept.       *)
(* SpecLife   SpecCore with the actor halted from outside and handlers     *)
(*            abandoning their wait.                                       *)
(***************************************************************************)
EXTENDS Integers, Sequences, FiniteSets, TLC

(***************************************************************************)
(* Bounds.  i64 is scaled down to the range MinInt..MaxInt; arithmetic    *)
(* outside it overflows exactly as i64 arithmetic does outside its range.  *)
(***************************************************************************)
MaxInt == 15

MinInt == -MaxInt - 1

NumConns == 2

\* The number of commands the handlers enqueue in a run of SpecCore.
MaxCmds == 3

\* The number of commands the handlers enqueue in a run of SpecLife.
MaxLifeCmds == 2

Conns == 1..NumConns

\* The keys the directly driven dispatcher is called with.
Keys == {"a", "b"}

\* The key each connection handler works on, all different.
KeyPool == <<"a", "b", "c", "d">>

KeyOf(c) == KeyPool[c]

ConnKeys == {KeyOf(c) : c \in Conns}

Int64 == MinInt..MaxInt

(***************************************************************************)
(* RespData, the Value type (crate::transport).                            *)
(***************************************************************************)
\* A Value is a tuple: its variant, then the variant's payload.
SimpleStr(s) == <<"SimpleStr", s>>

Number(n) == <<"Number", n>>

Error(s) == <<"Error", s>>

RespData_ok == <<"Ok">>

\* Option::None as returned by HashMap::get for a key with no entry.
None == <<"None">>

\* What a caller has in hand when core_logic unwound instead of returning.
NoResponse == <<"NoResponse">>

IsNumber(v) == v[1] = "Number"

val(v) == v[2]

(***************************************************************************)
(* Command (super::Command) and Option<i64>.                               *)
(***************************************************************************)
NoBy == <<>>

Some(n) == <<n>>

unwrap_or(opt, default) == IF opt # <<>> THEN opt[1] ELSE default

\* A Command is a tuple: its variant, then its operands.
Set(key, value) == <<"Set", key, value>>

Get(key) == <<"Get", key>>

FlushAll == <<"FlushAll">>

Incr(key, maybe_by) == <<"Incr", key, maybe_by>>

Decr(key, maybe_by) == <<"Decr", key, maybe_by>>

Unknown == <<"Unknown">>

NoCmd == <<"NoCmd">>

op(c) == c[1]

key_of(c) == c[2]

value_of(c) == c[3]

by_of(c) == c[3]

\* The operands the model draws commands from.
SetValues ==
    {RespData_ok, SimpleStr("hello"), SimpleStr("goodbye"), Error("oops"),
     Number(MaxInt)}

ByValues == {NoBy, Some(10), Some(MinInt)}

(***************************************************************************)
(* HashMap<String, RespData>: a key with no entry maps to None.            *)
(***************************************************************************)
HashMap_new(keys) == [k \in keys |-> None]

insert_Clobber(keyval, key, value) == [k \in DOMAIN keyval |-> value]

insert(keyval, key, value) == [keyval EXCEPT ![key] = value]

clear(keyval) == [k \in DOMAIN keyval |-> None]

len(keyval) == Cardinality({k \in DOMAIN keyval : keyval[k] # None})

(***************************************************************************)
(* i64 `+` and `-`.  With overflow checks (the dev and test profiles) a    *)
(* result outside the range panics; without them (release) it wraps.       *)
(***************************************************************************)
Wrap(x) == ((x - MinInt) % (MaxInt - MinInt + 1)) + MinInt

\* <<overflow panic, result>>
i64_arith(x, checks) ==
    IF x \in Int64 THEN <<FALSE, x>>
    ELSE IF checks THEN <<TRUE, 0>>
    ELSE <<FALSE, Wrap(x)>>

\* The outcome of a core_logic call: <<Store, returned Value, panic>>.
Returns(keyval, response) == <<keyval, response, FALSE>>

Panics(keyval) == <<keyval, NoResponse, TRUE>>

(***************************************************************************)
(* core_logic, one operator per match arm.                                 *)
(***************************************************************************)
SetArm_NoInsert(keyval, key, value) == Returns(keyval, RespData_ok)

SetArm_KeepsOld(keyval, key, value) ==
    IF keyval[key] # None THEN Returns(keyval, RespData_ok)
    ELSE Returns(insert(keyval, key, value), RespData_ok)

SetArm_ReplacesMap(keyval, key, value) ==
    Returns(insert(clear(keyval), key, value), RespData_ok)

SetArm(keyval, key, value) == Returns(insert(keyval, key, value), RespData_ok)

GetArm_Inserts(keyval, key) ==
    IF keyval[key] # None THEN Returns(keyval, keyval[key])
    ELSE Returns(insert(keyval, key, Error("(nil)")), Error("(nil)"))

GetArm_Removes(keyval, key) ==
    IF keyval[key] # None THEN Returns(insert(keyval, key, None), keyval[key])
    ELSE Returns(keyval, Error("(nil)"))

GetArm(keyval, key) ==
    Returns(keyval, IF keyval[key] # None THEN keyval[key] ELSE Error("(nil)"))

FlushAllArm_NoClear(keyval) == Returns(keyval, RespData_ok)

FlushAllArm(keyval) == Returns(clear(keyval), RespData_ok)

IncrArm_NonNumberAsAbsent(keyval, key, maybe_by, checks) ==
    LET prev == keyval[key]
    IN  IF prev # None /\ IsNumber(prev)
        THEN LET r == i64_arith(val(prev) + unwrap_or(maybe_by, 1), checks)
             IN  IF r[1] THEN Panics(keyval)
                 ELSE Returns(insert(keyval, key, Number(r[2])), Number(r[2]))
        ELSE Returns(insert(keyval, key, Number(1)), Number(1))

IncrArm_StoresNaN(keyval, key, maybe_by, checks) ==
    LET prev == keyval[key]
    IN  IF prev = None THEN Returns(insert(keyval, key, Number(1)), Number(1))
        ELSE IF IsNumber(prev)
        THEN LET r == i64_arith(val(prev) + unwrap_or(maybe_by, 1), checks)
             IN  IF r[1] THEN Panics(keyval)
                 ELSE Returns(insert(keyval, key, Number(r[2])), Number(r[2]))
        ELSE Returns(insert(keyval, key, Error("NaN")), Error("NaN"))

IncrArm(keyval, key, maybe_by, checks) ==
    LET prev == keyval[key]
    IN  IF prev = None THEN Returns(insert(keyval, key, Number(1)), Number(1))
        ELSE IF IsNumber(prev)
        THEN LET r == i64_arith(val(prev) + unwrap_or(maybe_by, 1), checks)
             IN  IF r[1] THEN Panics(keyval)
                 ELSE Returns(insert(keyval, key, Number(r[2])), Number(r[2]))
        ELSE Returns(keyval, Error("NaN"))

DecrArm_SeedsBy(keyval, key, maybe_by, checks) ==
    LET prev == keyval[key]
        seed == -unwrap_or(maybe_by, 1)
    IN  IF prev = None
        THEN IF seed \in Int64
             THEN Returns(insert(keyval, key, Number(seed)), Number(seed))
             ELSE Panics(keyval)
        ELSE IF IsNumber(prev)
        THEN LET r == i64_arith(val(prev) - unwrap_or(maybe_by, 1), checks)
             IN  IF r[1] THEN Panics(keyval)
                 ELSE Returns(insert(keyval, key, Number(r[2])), Number(r[2]))
        ELSE Returns(keyval, Error("NaN"))

DecrArm_Saturates(keyval, key, maybe_by, checks) ==
    LET prev == keyval[key]
    IN  IF prev = None THEN Returns(insert(keyval, key, Number(-1)), Number(-1))
        ELSE IF IsNumber(prev)
        THEN LET x == val(prev) - unwrap_or(maybe_by, 1)
                 y == IF x < 0 THEN 0 ELSE x
                 r == i64_arith(y, checks)
             IN  IF r[1] THEN Panics(keyval)
                 ELSE Returns(insert(keyval, key, Number(r[2])), Number(r[2]))
        ELSE Returns(keyval, Error("NaN"))

DecrArm(keyval, key, maybe_by, checks) ==
    LET prev == keyval[key]
    IN  IF prev = None THEN Returns(insert(keyval, key, Number(-1)), Number(-1))
        ELSE IF IsNumber(prev)
        THEN LET r == i64_arith(val(prev) - unwrap_or(maybe_by, 1), checks)
             IN  IF r[1] THEN Panics(keyval)
                 ELSE Returns(insert(keyval, key, Number(r[2])), Number(r[2]))
        ELSE Returns(keyval, Error("NaN"))

UnknownArm_Flush(keyval) == Returns(clear(keyval), Error("Unknown core cmd"))

UnknownArm(keyval) == Returns(keyval, Error("Unknown core cmd"))

core_logic(keyval, c, checks) ==
    CASE op(c) = "Set" -> SetArm(keyval, key_of(c), value_of(c))
      [] op(c) = "Get" -> GetArm(keyval, key_of(c))
      [] op(c) = "FlushAll" -> FlushAllArm(keyval)
      [] op(c) = "Incr" -> IncrArm(keyval, key_of(c), by_of(c), checks)
      [] op(c) = "Decr" -> DecrArm(keyval, key_of(c), by_of(c), checks)
      [] OTHER -> UnknownArm(keyval)

(***************************************************************************)
(* State.                                                                  *)
(***************************************************************************)
VARIABLES
    keyval,           \* CoreState.keyval
    overflow_checks,  \* the build profile: TRUE = overflow panics
    panicked,         \* core_logic unwound with a panic
    cmd,              \* the command core_logic last ran
    response,         \* what it returned
    prevCmd,          \* the command run before cmd
    actor,            \* the Core actor: "NotStarted", "Running" or "Stopped"
    inbox,            \* the actor's channel of (Command, reply destination)
    processing,       \* the message the actor took from the inbox, or NoMsg
    pc,               \* per connection handler: "idle" or "waiting"
    reply,            \* per connection: its one-shot reply destination
    sent,             \* per connection: the command it last submitted
    got,              \* per connection: the Value it last received
    lastSet,          \* per connection: the value of its most recent Set
    issued,           \* history, per connection: the commands it enqueued
    dequeued,         \* history: <<Command, handler>> in the order dequeued
    executed,         \* history: <<Command, handler>> in the order dispatched
    replies           \* history, per connection: the Values it received

coreVars == <<keyval, overflow_checks, panicked, cmd, response, prevCmd>>

actorVars == <<actor, inbox, processing>>

connVars == <<pc, reply, sent, got, lastSet>>

histVars == <<issued, dequeued, executed, replies>>

vars == <<coreVars, actorVars, connVars, histVars>>

\* The message in the actor's hands: <<stage, Command, submitting handler>>.
NoMsg == <<"none">>

Msg(c, from) == <<"received", c, from>>

NoConns ==
    /\ inbox = <<>>
    /\ processing = NoMsg
    /\ pc = [c \in Conns |-> "idle"]
    /\ reply = [c \in Conns |-> NoResponse]
    /\ sent = [c \in Conns |-> NoCmd]
    /\ got = [c \in Conns |-> NoResponse]
    /\ lastSet = [c \in Conns |-> None]
    /\ issued = [c \in Conns |-> <<>>]
    /\ dequeued = <<>>
    /\ executed = <<>>
    /\ replies = [c \in Conns |-> <<>>]

InitCore(keys) ==
    /\ keyval = HashMap_new(keys)
    /\ overflow_checks \in BOOLEAN
    /\ panicked = FALSE
    /\ cmd = NoCmd
    /\ response = NoResponse
    /\ prevCmd = NoCmd

\* A CoreState built by hand, as the unit tests build it: no actor.
Init == InitCore(Keys) /\ actor = "NotStarted" /\ NoConns

Call_OnCopy(c) ==
    LET r == core_logic(keyval, c, overflow_checks)
    IN  /\ ~panicked
        /\ keyval' = keyval
        /\ response' = r[2]
        /\ panicked' = r[3]
        /\ cmd' = c
        /\ prevCmd' = cmd
        /\ UNCHANGED overflow_checks

\* One call core_logic(&mut state, c).
Call(c) ==
    LET r == core_logic(keyval, c, overflow_checks)
    IN  /\ ~panicked
        /\ keyval' = r[1]
        /\ response' = r[2]
        /\ panicked' = r[3]
        /\ cmd' = c
        /\ prevCmd' = cmd
        /\ UNCHANGED overflow_checks

\* The unit tests' calls, one action per command.
CallSet ==
    /\ actor = "NotStarted"
    /\ \E k \in Keys, v \in SetValues : Call(Set(k, v))
    /\ UNCHANGED <<actorVars, connVars, histVars>>

CallGet ==
    /\ actor = "NotStarted"
    /\ \E k \in Keys : Call(Get(k))
    /\ UNCHANGED <<actorVars, connVars, histVars>>

CallFlushAll ==
    /\ actor = "NotStarted"
    /\ Call(FlushAll)
    /\ UNCHANGED <<actorVars, connVars, histVars>>

CallIncr ==
    /\ actor = "NotStarted"
    /\ \E k \in Keys, by \in ByValues : Call(Incr(k, by))
    /\ UNCHANGED <<actorVars, connVars, histVars>>

CallDecr ==
    /\ actor = "NotStarted"
    /\ \E k \in Keys, by \in ByValues : Call(Decr(k, by))
    /\ UNCHANGED <<actorVars, connVars, histVars>>

CallUnknown ==
    /\ actor = "NotStarted"
    /\ Call(Unknown)
    /\ UNCHANGED <<actorVars, connVars, histVars>>

Next ==
    \/ CallSet
    \/ CallGet
    \/ CallFlushAll
    \/ CallIncr
    \/ CallDecr
    \/ CallUnknown

Spec == Init /\ [][Next]_vars


(***************************************************************************)
(* The Core actor and the connection handlers (main: Core::start, then     *)
(* Connection::start with the actor's sender).                             *)
(***************************************************************************)
\* The values the connection handlers Set.
ConnValues == {SimpleStr("hello"), SimpleStr("goodbye")}

\* core::Core::start(): an empty Store, an empty inbox, the loop running.
InitActor == InitCore(ConnKeys) /\ actor = "Running" /\ NoConns

\* A handler submits (command, one-shot reply destination) and waits.
SubmitStep(c, command) ==
    /\ actor = "Running"
    /\ pc[c] = "idle"
    /\ inbox' = Append(inbox, Msg(command, c))
    /\ pc' = [pc EXCEPT ![c] = "waiting"]
    /\ sent' = [sent EXCEPT ![c] = command]
    /\ lastSet' = IF op(command) = "Set"
                  THEN [lastSet EXCEPT ![c] = value_of(command)]
                  ELSE lastSet
    /\ UNCHANGED <<coreVars, actor, processing, reply, got>>

RecvStep_NoWait ==
    /\ actor = "Running"
    /\ inbox # <<>>
    /\ processing' = Head(inbox)
    /\ inbox' = Tail(inbox)
    /\ UNCHANGED <<coreVars, actor, connVars>>

RecvStep_Drains ==
    /\ processing = NoMsg
    /\ inbox # <<>>
    /\ processing' = Head(inbox)
    /\ inbox' = Tail(inbox)
    /\ UNCHANGED <<coreVars, actor, connVars>>

\* The receive loop takes the next message from the inbox.
RecvStep ==
    /\ actor = "Running"
    /\ processing = NoMsg
    /\ inbox # <<>>
    /\ processing' = Head(inbox)
    /\ inbox' = Tail(inbox)
    /\ UNCHANGED <<coreVars, actor, connVars>>

DispatchStep_NoAdvance ==
    /\ actor = "Running"
    /\ processing # NoMsg
    /\ Call(processing[2])
    /\ processing' = [processing EXCEPT ![1] = "dispatched"]
    /\ actor' = IF panicked' THEN "Stopped" ELSE actor
    /\ UNCHANGED <<inbox, connVars>>

\* It runs the Dispatcher on the Store it owns; a panic ends the loop.
DispatchStep ==
    /\ actor = "Running"
    /\ processing # NoMsg
    /\ processing[1] = "received"
    /\ Call(processing[2])
    /\ processing' = [processing EXCEPT ![1] = "dispatched"]
    /\ actor' = IF panicked' THEN "Stopped" ELSE actor
    /\ UNCHANGED <<inbox, connVars>>

DeliverStep_Unwrap ==
    /\ actor = "Running"
    /\ processing # NoMsg
    /\ processing[1] = "dispatched"
    /\ reply' = IF pc[processing[3]] = "waiting"
                THEN [reply EXCEPT ![processing[3]] = response]
                ELSE reply
    /\ actor' = IF pc[processing[3]] = "waiting" THEN actor ELSE "Stopped"
    /\ processing' = NoMsg
    /\ UNCHANGED <<coreVars, inbox, pc, sent, got, lastSet>>

\* It sends the Value to the message's reply destination; when the handler
\* has dropped the destination the Value is discarded.
DeliverStep ==
    /\ actor = "Running"
    /\ processing # NoMsg
    /\ processing[1] = "dispatched"
    /\ reply' = IF pc[processing[3]] = "waiting"
                THEN [reply EXCEPT ![processing[3]] = response]
                ELSE reply
    /\ processing' = NoMsg
    /\ UNCHANGED <<coreVars, actor, inbox, pc, sent, got, lastSet>>

\* The handler receives the Value it was waiting for.
AwaitStep(c) ==
    /\ pc[c] = "waiting"
    /\ reply[c] # NoResponse
    /\ got' = [got EXCEPT ![c] = reply[c]]
    /\ reply' = [reply EXCEPT ![c] = NoResponse]
    /\ pc' = [pc EXCEPT ![c] = "idle"]
    /\ UNCHANGED <<coreVars, actorVars, sent, lastSet>>

Submit(c, command) == SubmitStep(c, command) /\ UNCHANGED histVars

\* A handler on its own key: a Set, or a Get once it has Set.
SubmitSet ==
    /\ actor = "Running"
    /\ \E c \in Conns, v \in ConnValues : Submit(c, Set(KeyOf(c), v))

SubmitGet ==
    /\ actor = "Running"
    /\ \E c \in Conns : lastSet[c] # None /\ Submit(c, Get(KeyOf(c)))

Recv == RecvStep /\ UNCHANGED histVars

Dispatch == DispatchStep /\ UNCHANGED histVars

Deliver == DeliverStep /\ UNCHANGED histVars

Await ==
    /\ \E c \in Conns : AwaitStep(c)
    /\ UNCHANGED histVars

NextActor ==
    \/ SubmitSet
    \/ SubmitGet
    \/ Recv
    \/ Dispatch
    \/ Deliver
    \/ Await

SpecActor == InitActor /\ [][NextActor]_vars

(***************************************************************************)
(* The Core actor under every kind of command, with its lifecycle.         *)
(***************************************************************************)
\* The key all handlers share, and the commands they submit.
SharedKeys == {"a"}

CoreCmds ==
    {Set("a", Number(MaxInt)), Set("a", SimpleStr("hello")), Get("a"),
     Incr("a", NoBy), FlushAll}

InitCoreActor == InitCore(SharedKeys) /\ actor = "Running" /\ NoConns

NumIssued == Len(dequeued) + Len(inbox)

SubmitUpTo(max) ==
    /\ NumIssued < max
    /\ \E c \in Conns, command \in CoreCmds :
           /\ SubmitStep(c, command)
           /\ issued' = [issued EXCEPT ![c] = Append(@, command)]
    /\ UNCHANGED <<dequeued, executed, replies>>

CoreSubmit == SubmitUpTo(MaxCmds)

LifeSubmit == SubmitUpTo(MaxLifeCmds)

CoreRecv ==
    /\ RecvStep
    /\ dequeued' = Append(dequeued, <<Head(inbox)[2], Head(inbox)[3]>>)
    /\ UNCHANGED <<issued, executed, replies>>

CoreDispatch ==
    /\ DispatchStep
    /\ executed' = Append(executed, <<cmd', processing[3]>>)
    /\ UNCHANGED <<issued, dequeued, replies>>

CoreDeliver == DeliverStep /\ UNCHANGED histVars

CoreAwait ==
    /\ \E c \in Conns :
           /\ AwaitStep(c)
           /\ replies' = [replies EXCEPT ![c] = Append(@, reply[c])]
    /\ UNCHANGED <<issued, dequeued, executed>>

\* Submitting to a stopped actor fails: dispatcher unavailable.
SubmitFail ==
    /\ actor = "Stopped"
    /\ \E c \in Conns :
           /\ pc[c] = "idle"
           /\ pc' = [pc EXCEPT ![c] = "failed"]
    /\ UNCHANGED <<coreVars, actorVars, reply, sent, got, lastSet, histVars>>

\* A handler waiting on a stopped actor that never replied fails too.
AwaitFail ==
    /\ actor = "Stopped"
    /\ \E c \in Conns :
           /\ pc[c] = "waiting"
           /\ reply[c] = NoResponse
           /\ pc' = [pc EXCEPT ![c] = "failed"]
    /\ UNCHANGED <<coreVars, actorVars, reply, sent, got, lastSet, histVars>>

NextCore ==
    \/ CoreSubmit
    \/ CoreRecv
    \/ CoreDispatch
    \/ CoreDeliver
    \/ CoreAwait
    \/ SubmitFail
    \/ AwaitFail

SpecCore == InitCoreActor /\ [][NextCore]_vars

\* A handler stops waiting and drops its reply destination.
Drop ==
    /\ \E c \in Conns :
           /\ pc[c] = "waiting"
           /\ pc' = [pc EXCEPT ![c] = "closed"]
    /\ UNCHANGED <<coreVars, actorVars, reply, sent, got, lastSet, histVars>>

\* The actor is halted from outside: its inbox is closed for good.
Stop ==
    /\ actor = "Running"
    /\ actor' = "Stopped"
    /\ UNCHANGED <<coreVars, inbox, processing, connVars, histVars>>

NextLife ==
    \/ LifeSubmit
    \/ CoreRecv
    \/ CoreDispatch
    \/ CoreDeliver
    \/ CoreAwait
    \/ SubmitFail
    \/ AwaitFail
    \/ Drop
    \/ Stop

SpecLife == InitCoreActor /\ [][NextLife]_vars

(***************************************************************************)
(* The Dispatcher applied sequentially to a log of <<Command, handler>>,   *)
(* from the empty Store: <<Store, <<handler, Value>> per command, panic>>. *)
(***************************************************************************)
RECURSIVE Sequential(_, _, _)

Sequential(log, keys, checks) ==
    IF log = <<>> THEN <<HashMap_new(keys), <<>>, FALSE>>
    ELSE LET before == Sequential(SubSeq(log, 1, Len(log) - 1), keys, checks)
             last == log[Len(log)]
             r == core_logic(before[1], last[1], checks)
         IN  IF before[3] THEN before
             ELSE <<r[1], Append(before[2], <<last[2], r[2]>>), r[3]>>

Prefix(a, b) == Len(a) <= Len(b) /\ a = SubSeq(b, 1, Len(a))

Second(pairs) == [i \in 1..Len(pairs) |-> pairs[i][2]]

First(pairs) == [i \in 1..Len(pairs) |-> pairs[i][1]]

\* The Values the sequential run returns to handler c, in order.
RepliesTo(c, outs) ==
    LET Mine(x) == x[1] = c /\ x[2] # NoResponse
    IN  Second(SelectSeq(outs, Mine))

\* The commands of handler c in a log, in order.
CommandsOf(c, log) ==
    LET Mine(x) == x[2] = c
    IN  First(SelectSeq(log, Mine))

Quiescent ==
    /\ inbox = <<>>
    /\ processing = NoMsg
    /\ \A c \in Conns : pc[c] = "idle"

(***************************************************************************)
(* Properties of the dispatcher, checked under Spec.                       *)
(***************************************************************************)
Nil == Error("(nil)")

NaN == Error("NaN")

Present(kv, k) == kv[k] # None

\* C1: Set(k, v) returns Ok and adds one entry if k was absent and none if
\* it was present; a Get(k) that immediately follows returns exactly v.
C1_SetThenGet ==
    [][ /\ op(cmd') = "Set" =>
            /\ response' = RespData_ok
            /\ len(keyval') =
                   len(keyval) + (IF Present(keyval, key_of(cmd')) THEN 0 ELSE 1)
        /\ (op(cmd) = "Set" /\ cmd' = Get(key_of(cmd))) => response' = value_of(cmd)
      ]_vars

C1_Witness ==
    /\ prevCmd = Set("a", SimpleStr("hello"))
    /\ cmd = Get("a")
    /\ response = SimpleStr("hello")
    /\ len(keyval) = 1

\* C2: Set(k, v1) then Set(k, v2) both return Ok, the second leaves the
\* number of entries unchanged, and afterwards k maps to v2: a Get(k) that
\* follows returns v2.
C2_SetOverwrites ==
    [][ /\ (op(cmd) = "Set" /\ op(cmd') = "Set" /\ key_of(cmd') = key_of(cmd)) =>
            /\ response = RespData_ok
            /\ response' = RespData_ok
            /\ len(keyval') = len(keyval)
            /\ keyval'[key_of(cmd')] = value_of(cmd')
        /\ (/\ op(prevCmd) = "Set" /\ op(cmd) = "Set" /\ key_of(cmd) = key_of(prevCmd)
            /\ cmd' = Get(key_of(cmd))) => response' = value_of(cmd)
      ]_vars

C2_Witness ==
    /\ prevCmd = Set("a", SimpleStr("hello"))
    /\ cmd = Set("a", SimpleStr("goodbye"))
    /\ response = RespData_ok
    /\ keyval["a"] = SimpleStr("goodbye")
    /\ len(keyval) = 1

\* C3: Get(k) on an absent key returns Error("(nil)") and creates no entry:
\* the Store is the same afterwards and k is still absent.
C3_GetAbsent ==
    [][ (op(cmd') = "Get" /\ ~Present(keyval, key_of(cmd'))) =>
            /\ response' = Nil
            /\ len(keyval') = len(keyval)
            /\ ~Present(keyval', key_of(cmd'))
            /\ keyval' = keyval
      ]_vars

C3_Witness ==
    /\ cmd = Get("a")
    /\ response = Nil
    /\ ~Present(keyval, "a")
    /\ Present(keyval, "b")

\* C4: FlushAll returns Ok and leaves the Store with zero entries, whatever
\* came before; a Get that follows it returns Error("(nil)") for every key.
C4_FlushAll ==
    [][ /\ op(cmd') = "FlushAll" =>
            /\ response' = RespData_ok
            /\ len(keyval') = 0
            /\ \A k \in DOMAIN keyval : ~Present(keyval', k)
        /\ (op(cmd) = "FlushAll" /\ op(cmd') = "Get") => response' = Nil
      ]_vars

C4_Witness ==
    /\ op(prevCmd) \in {"Set", "Incr", "Decr"}
    /\ cmd = FlushAll
    /\ response = RespData_ok
    /\ len(keyval) = 0

\* C5: Incr(k, by) on a key holding Integer(n) stores Integer(n + delta) and
\* returns it, delta being by if given and 1 otherwise; Incr(k, None) on an
\* absent key stores and returns Integer(1).
C5_Incr ==
    [][ op(cmd') = "Incr" =>
            LET k == key_of(cmd')
                delta == unwrap_or(by_of(cmd'), 1)
            IN  /\ (~Present(keyval, k) /\ by_of(cmd') = NoBy) =>
                       (response' = Number(1) /\ keyval'[k] = Number(1))
                /\ (Present(keyval, k) /\ IsNumber(keyval[k])) =>
                       /\ response' = Number(val(keyval[k]) + delta)
                       /\ keyval'[k] = response'
      ]_vars

\* C6: Decr(k, by) on a key holding Integer(n) stores Integer(n - delta) and
\* returns it, delta being by if given and 1 otherwise; Decr(k, None) on an
\* absent key stores and returns Integer(-1).
C6_Decr ==
    [][ op(cmd') = "Decr" =>
            LET k == key_of(cmd')
                delta == unwrap_or(by_of(cmd'), 1)
            IN  /\ (~Present(keyval, k) /\ by_of(cmd') = NoBy) =>
                       (response' = Number(-1) /\ keyval'[k] = Number(-1))
                /\ (Present(keyval, k) /\ IsNumber(keyval[k])) =>
                       /\ response' = Number(val(keyval[k]) - delta)
                       /\ keyval'[k] = response'
      ]_vars

\* C7: Incr or Decr, with any amount, on a key whose Value is not an Integer
\* returns Error("NaN") and leaves the whole Store unchanged.
C7_NaN ==
    [][ (/\ (op(cmd') = "Incr" \/ op(cmd') = "Decr")
         /\ Present(keyval, key_of(cmd'))
         /\ ~IsNumber(keyval[key_of(cmd')])) =>
            (response' = NaN /\ keyval' = keyval)
      ]_vars

C7_Witness ==
    /\ prevCmd = Set("a", SimpleStr("hello"))
    /\ cmd = Decr("a", Some(10))
    /\ response = NaN
    /\ keyval["a"] = SimpleStr("hello")

\* C8: every command, in every Store, returns a Value: core_logic never
\* unwinds with a panic, Incr and Decr past the integer range included.
C8_NoFatalFault == ~panicked /\ (cmd # NoCmd => response # NoResponse)

\* C9: Unknown returns Error("Unknown core cmd") and leaves the Store
\* unchanged.
C9_Unknown ==
    [][ cmd' = Unknown =>
            (response' = Error("Unknown core cmd") /\ keyval' = keyval)
      ]_vars

C9_Witness ==
    /\ cmd = Unknown
    /\ response = Error("Unknown core cmd")
    /\ len(keyval) = 2

\* C14: Incr(k, Some(by)) on an absent key stores and returns Integer(1), and
\* Decr(k, Some(by)) on an absent key stores and returns Integer(-1), for
\* every by: the amount is not applied when the key is created.
C14_SeedIgnoresBy ==
    [][ (/\ (op(cmd') = "Incr" \/ op(cmd') = "Decr")
         /\ by_of(cmd') # NoBy
         /\ ~Present(keyval, key_of(cmd'))) =>
            LET seed == IF op(cmd') = "Incr" THEN Number(1) ELSE Number(-1)
            IN  /\ response' = seed
                /\ keyval' = insert(keyval, key_of(cmd'), seed)
      ]_vars

C14_Witness ==
    /\ prevCmd = FlushAll
    /\ cmd = Decr("a", Some(10))
    /\ response = Number(-1)
    /\ keyval["a"] = Number(-1)

\* C15: Get(k) leaves the Store exactly as it was, whether k is present or
\* absent, and when k is present the reply is the stored Value.
C15_GetReadsOnly ==
    [][ op(cmd') = "Get" =>
            /\ keyval' = keyval
            /\ Present(keyval, key_of(cmd')) => response' = keyval[key_of(cmd')]
      ]_vars

C15_Witness ==
    /\ prevCmd = Incr("a", NoBy)
    /\ cmd = Get("a")
    /\ response = Number(2)
    /\ keyval["a"] = Number(2)
    /\ Present(keyval, "b")

\* C16: every command other than FlushAll keeps every present key present;
\* Set, Incr and Decr touch only the key they name, Get and Unknown touch
\* nothing; a key becomes absent only through FlushAll.
C16_OnlyFlushAllRemoves ==
    [][ /\ op(cmd') # "FlushAll" =>
            /\ \A k \in DOMAIN keyval :
                   Present(keyval, k) => Present(keyval', k)
            /\ (op(cmd') = "Set" \/ op(cmd') = "Incr" \/ op(cmd') = "Decr") =>
                   \A k \in DOMAIN keyval :
                       k # key_of(cmd') => keyval'[k] = keyval[k]
            /\ (op(cmd') = "Get" \/ op(cmd') = "Unknown") => keyval' = keyval
        /\ (\E k \in DOMAIN keyval : Present(keyval, k) /\ ~Present(keyval', k))
               => op(cmd') = "FlushAll"
      ]_vars

C16_Witness ==
    /\ prevCmd = Decr("a", NoBy)
    /\ cmd = Set("b", SimpleStr("hello"))
    /\ keyval["a"] = Number(-2)
    /\ keyval["b"] = SimpleStr("hello")

\* C19: the Dispatcher never stores an error of its own: an entry changes
\* only to the operand of a Set on its key or to an Integer written by Incr
\* or Decr on its key.  So while no stored Value is an Error, Get(k) returns
\* Error("(nil)") exactly when k is absent.
C19_NoOwnErrorStored ==
    [][ /\ \A k \in DOMAIN keyval :
               (keyval'[k] # keyval[k] /\ Present(keyval', k)) =>
                   \/ cmd' = Set(k, keyval'[k])
                   \/ /\ (op(cmd') = "Incr" \/ op(cmd') = "Decr")
                      /\ key_of(cmd') = k
                      /\ IsNumber(keyval'[k])
        /\ (/\ op(cmd') = "Get"
            /\ \A k \in DOMAIN keyval : keyval[k][1] # "Error") =>
               (response' = Nil <=> ~Present(keyval, key_of(cmd')))
      ]_vars

C19_Witness ==
    /\ prevCmd = Incr("a", Some(10))
    /\ cmd = Get("b")
    /\ response = Nil
    /\ keyval["a"] = Number(1)
    /\ ~Present(keyval, "b")

\* C20: on a key holding Integer(n), with n + d inside the integer range,
\* Incr(k, Some(d)) followed by Decr(k, Some(d)) returns Integer(n) and
\* leaves the Store as it was before the Incr; and Decr(k, by) gives the
\* result and the Store that Incr(k, Some(-delta)) gives, for every delta
\* whose negation is an integer of the range.
C20_IncrDecrInverse ==
    [][ /\ (/\ op(cmd') = "Incr"
            /\ by_of(cmd') # NoBy
            /\ Present(keyval, key_of(cmd'))
            /\ IsNumber(keyval[key_of(cmd')])
            /\ val(keyval[key_of(cmd')]) + by_of(cmd')[1] \in Int64) =>
               core_logic(keyval', Decr(key_of(cmd'), by_of(cmd')), overflow_checks)
                   = Returns(keyval, keyval[key_of(cmd')])
        /\ (/\ op(cmd') = "Decr"
            /\ Present(keyval, key_of(cmd'))
            /\ IsNumber(keyval[key_of(cmd')])
            /\ -unwrap_or(by_of(cmd'), 1) \in Int64) =>
               <<keyval', response', panicked'>> =
                   core_logic(keyval,
                              Incr(key_of(cmd'), Some(-unwrap_or(by_of(cmd'), 1))),
                              overflow_checks)
      ]_vars

C20_Witness ==
    /\ prevCmd = Incr("a", Some(10))
    /\ cmd = Decr("a", Some(10))
    /\ response = Number(2)
    /\ keyval["a"] = Number(2)

(***************************************************************************)
(* Properties of the actor, checked under SpecActor.                       *)
(***************************************************************************)
\* C10: with concurrent callers, each on its own key and each issuing Set
\* and then, after the Set's reply, Get, every Get's reply is the value of
\* that caller's most recent Set, however the submissions interleave.
C10_DisjointCallers ==
    \A c \in Conns :
        (op(sent[c]) = "Get" /\ pc[c] = "idle") => got[c] = lastSet[c]

C10_Witness ==
    /\ sent[1] = Get(KeyOf(1))
    /\ pc[1] = "idle"
    /\ got[1] = SimpleStr("hello")
    /\ sent[2] = Get(KeyOf(2))
    /\ pc[2] = "idle"
    /\ got[2] = SimpleStr("goodbye")
    /\ op(prevCmd) = "Get"
    /\ key_of(prevCmd) # key_of(cmd)

(***************************************************************************)
(* Properties of the actor, checked under SpecCore and SpecLife.           *)
(***************************************************************************)
\* C11: the actor has at most one command in hand: it dequeues a message
\* only when every message dequeued before has been dispatched and its
\* reply delivered or discarded, and each command's read and write of the
\* Store is one Dispatcher call on the message in hand.
C11_OneAtATime ==
    [][ /\ dequeued' # dequeued =>
            /\ processing = NoMsg
            /\ executed = dequeued
            /\ processing' = <<"received", dequeued'[Len(dequeued')][1],
                               dequeued'[Len(dequeued')][2]>>
        /\ executed' # executed =>
            /\ processing # NoMsg
            /\ executed' = dequeued
            /\ <<keyval', response', panicked'>> =
                   core_logic(keyval, processing[2], overflow_checks)
      ]_vars

C11_Witness ==
    /\ processing # NoMsg
    /\ processing[1] = "dispatched"
    /\ Len(inbox) = 1
    /\ Len(dequeued) = 2
    /\ executed = dequeued
    /\ cmd = Incr("a", NoBy)
    /\ prevCmd = Incr("a", NoBy)
    /\ keyval["a"] = Number(2)

\* C12: the Store and the reply each command receives are those of the
\* Dispatcher applied sequentially, from the empty Store, to the commands
\* in the order they were dequeued.
C12_Linearized ==
    LET seq == Sequential(executed, DOMAIN keyval, overflow_checks)
    IN  /\ Prefix(executed, dequeued)
        /\ keyval = seq[1]
        /\ panicked = seq[3]
        /\ \A c \in Conns : Prefix(replies[c], RepliesTo(c, seq[2]))
        /\ Quiescent => \A c \in Conns : replies[c] = RepliesTo(c, seq[2])

C12_Witness ==
    /\ Quiescent
    /\ executed = <<<<Set("a", Number(MaxInt)), 1>>, <<FlushAll, 2>>,
                    <<Incr("a", NoBy), 1>>>>
    /\ replies[1] = <<RespData_ok, Number(1)>>
    /\ replies[2] = <<RespData_ok>>
    /\ keyval["a"] = Number(1)

\* C17: the commands of each connection are executed in the order the
\* connection issued them, however the connections interleave.
C17_PerConnectionOrder ==
    \A c \in Conns : Prefix(CommandsOf(c, executed), issued[c])

C17_Witness ==
    /\ issued[1] = <<Set("a", SimpleStr("hello")), Get("a")>>
    /\ issued[2] = <<FlushAll>>
    /\ executed = <<<<Set("a", SimpleStr("hello")), 1>>, <<FlushAll, 2>>,
                    <<Get("a"), 1>>>>
    /\ replies[1] = <<RespData_ok, Nil>>

\* C13: once the actor is Stopped it stays Stopped, no command is dequeued
\* or executed and none is accepted: a handler that submits fails, and a
\* failed handler never receives a Value.
C13_StoppedIsFinal ==
    [][ actor = "Stopped" =>
            /\ actor' = "Stopped"
            /\ UNCHANGED <<keyval, cmd, inbox, processing, issued, dequeued,
                           executed>>
            /\ \A c \in Conns :
                   /\ (pc[c] = "idle" /\ pc'[c] # "idle") => pc'[c] = "failed"
                   /\ pc[c] = "failed" =>
                          (pc'[c] = "failed" /\ replies'[c] = replies[c])
      ]_vars

C13_Witness ==
    /\ actor = "Stopped"
    /\ ~panicked
    /\ pc[1] = "failed"
    /\ pc[2] = "failed"
    /\ issued[1] = <<Set("a", SimpleStr("hello"))>>
    /\ replies[1] = <<RespData_ok>>
    /\ issued[2] = <<Get("a")>>
    /\ replies[2] = <<>>
    /\ Len(inbox) = 1

\* C18: when the reply destination was dropped before the reply, the actor
\* discards the Value without an error and stays Running, ready for the
\* next message; the command's effect on the Store is applied as usual.
C18_DroppedReply ==
    [][ /\ (/\ processing # NoMsg
            /\ processing[1] = "dispatched"
            /\ pc[processing[3]] = "closed"
            /\ processing' = NoMsg) =>
               /\ actor' = "Running"
               /\ reply' = reply
               /\ UNCHANGED <<keyval, panicked, inbox>>
        /\ executed' # executed =>
               <<keyval', response', panicked'>> =
                   core_logic(keyval, processing[2], overflow_checks)
      ]_vars

C18_Witness ==
    /\ actor = "Running"
    /\ pc[1] = "closed"
    /\ reply[1] = NoResponse
    /\ replies[1] = <<>>
    /\ executed = <<<<Set("a", SimpleStr("hello")), 1>>, <<Get("a"), 2>>>>
    /\ replies[2] = <<SimpleStr("hello")>>

====
